---------------------------- MODULE Spec2Model ----------------------------
(* K-Map solver page (src/app/page.tsx): the Gray-code generator, the      *)
(* K-map grid builder KMapGrid and the request lifecycle of KMapPage.       *)
(*                                                                         *)
(* Strings are sequences of one-character strings.  JavaScript arrays are   *)
(* 0-based; sequences here are 1-based, so array index i is position i+1.   *)
EXTENDS Integers, Sequences, FiniteSets, TLC

VARIABLES
    \* ---- graySequence(bits), executed statement by statement ----
    gBits,       \* parameter bits
    gLen,        \* const len
    gI,          \* loop counter i
    gOut,        \* const out
    gPc,         \* "idle" | "start" | "loop" | "done"
    \* ---- KMapGrid(props), one render ----
    pNumInputs,  \* props.numInputs
    pMinterms,   \* props.minterms
    pDontCares,  \* props.dontCares
    pImplicants, \* props.implicants
    grid,        \* what the render returned: NotRendered, NullGrid or a grid record
    \* ---- KMapPage component state ----
    numInputs, minterms, dontCares, result, error, isRunning,
    pending,     \* the fetch in flight: None or the request body that was sent
    resultReq    \* history: the request body whose response set `result`
                 \* (None while result is null)

grayVars == <<gBits, gLen, gI, gOut, gPc>>
gridVars == <<pNumInputs, pMinterms, pDontCares, pImplicants, grid>>
pageVars == <<numInputs, minterms, dontCares, result, error, isRunning, pending, resultReq>>
vars == <<grayVars, gridVars, pageVars>>

-----------------------------------------------------------------------------
(* Bounds of the model *)

\* graySequence is run for every width 0..MaxBits (and the overflow widths)
MaxBits == 6
\* KMapGrid is rendered for numInputs from MinInputs-InputSlack to MaxInputs+InputSlack
InputSlack == 2
\* longest implicant list handed to KMapGrid
MaxImplicants == 6
\* longest minterm / don't-care list handed to KMapGrid
MaxListLen == 2

-----------------------------------------------------------------------------
(* JavaScript 32-bit integer operators, on the values the program uses *)

RECURSIVE Pow2(_)
Pow2(k) == IF k <= 0 THEN 1 ELSE 2 * Pow2(k - 1)

\* ToInt32 of x * 2^(s mod 32) for 0 <= x < 2^31: the operator `x << s`.
\* The bits shifted past bit 31 are lost and bit 31 is the sign.
Shl32(x, s) ==
    LET sh   == s % 32
        keep == 31 - sh       \* the low bits of x that stay below bit 31
    IN  IF sh = 0 THEN x
        ELSE LET low  == IF keep = 0 THEN 0 ELSE (x % Pow2(keep)) * Pow2(sh)
                 sign == (x \div Pow2(keep)) % 2
             IN  IF sign = 1 THEN (low - Pow2(30)) - Pow2(30) ELSE low

\* x >> s for 0 <= x < 2^31
Shr32(x, s) == x \div Pow2(s % 32)

RECURSIVE BitXor(_, _)
BitXor(a, b) ==
    IF a = 0 THEN b
    ELSE IF b = 0 THEN a
    ELSE (((a % 2) + (b % 2)) % 2) + 2 * BitXor(a \div 2, b \div 2)

RECURSIVE BitOr(_, _)
BitOr(a, b) ==
    IF a = 0 THEN b
    ELSE IF b = 0 THEN a
    ELSE (IF (a % 2) = 1 \/ (b % 2) = 1 THEN 1 ELSE 0) + 2 * BitOr(a \div 2, b \div 2)

-----------------------------------------------------------------------------
(* graySequence *)

GrayElemBinary(i) == i

\* out.push(i ^ (i >> 1))
GrayElem(i) == BitXor(i, Shr32(i, 1))

\* function graySequence(bits): number[]
graySequence(bits) ==
    IF bits <= 0 THEN <<0>>
    ELSE LET len == Shl32(1, bits)
         IN  [k \in 1..len |-> GrayElem(k - 1)]


-----------------------------------------------------------------------------
(* Array and string helpers (Array.prototype.includes / indexOf / join,      *)
(* Number.prototype.toString(2), String.prototype.padStart)                  *)

\* arr.includes(x)
Includes(arr, x) == \E k \in 1..Len(arr) : arr[k] = x

\* arr.indexOf(x): the 0-based index of the first element equal to x, or -1.
\* The implicants are distinct objects of one JSON.parse; comparing them by
\* value finds the same index, because an equal earlier element covers the
\* same minterms.
IndexOf(arr, x) ==
    IF Includes(arr, x)
    THEN (CHOOSE k \in 1..Len(arr) : arr[k] = x /\ \A j \in 1..(k - 1) : arr[j] # x) - 1
    ELSE -1

RECURSIVE Join(_, _)
\* strs.join(sep)
Join(strs, sep) ==
    IF Len(strs) = 0 THEN <<>>
    ELSE IF Len(strs) = 1 THEN strs[1]
    ELSE strs[1] \o sep \o Join(Tail(strs), sep)

RECURSIVE ToString2(_)
\* n.toString(2) for an integer n >= 0
ToString2(n) ==
    IF n < 2 THEN <<IF n = 1 THEN "1" ELSE "0">>
    ELSE Append(ToString2(n \div 2), IF (n % 2) = 1 THEN "1" ELSE "0")

\* str.padStart(width, '0')
PadStart(str, width) ==
    IF Len(str) >= width THEN str
    ELSE [k \in 1..(width - Len(str)) |-> "0"] \o str

toBitsStringNoPad(n, width) == ToString2(n)

\* function toBitsString(n, width)
toBitsString(n, width) == PadStart(ToString2(n), width)

-----------------------------------------------------------------------------
(* KMapGrid *)

GROUP_RING_CLASSES ==
    << "ring-2 ring-emerald-400/70",
       "ring-2 ring-sky-400/70",
       "ring-2 ring-violet-400/70",
       "ring-2 ring-amber-400/70",
       "ring-2 ring-rose-400/70" >>

ALL_VARS == <<"A", "B", "C", "D", "E", "F">>

\* arr.slice(from, to) with 0 <= from, clamped to the array like JavaScript's
Slice(arr, from, to) ==
    LET hi == IF to > Len(arr) THEN Len(arr) ELSE to
    IN  IF from >= hi THEN <<>> ELSE [k \in 1..(hi - from) |-> arr[from + k]]

NotRendered == [kind |-> "notRendered"]
NullGrid == [kind |-> "null"]

MinInputs == 2
MaxInputs == 6

RejectsBelowOne(n) == n < 1 \/ n > MaxInputs

\* if (numInputs < 2 || numInputs > 6) return null;
Rejects(n) == n < MinInputs \/ n > MaxInputs

MintermOfTwoByTwo(rg, cg, colVars) == BitOr(Shl32(rg, 1), cg)

\* const minterm = (rg << colVars) | cg;
MintermOf(rg, cg, colVars) == BitOr(Shl32(rg, colVars), cg)

valueForMintermDontCareFirst(m, mts, dcs) ==
    IF Includes(dcs, m) THEN "X"
    ELSE IF Includes(mts, m) THEN "1"
    ELSE "0"

\* const valueForMinterm = (m) => ...
valueForMinterm(m, mts, dcs) ==
    IF Includes(mts, m) THEN "1"
    ELSE IF Includes(dcs, m) THEN "X"
    ELSE "0"

Covers(imp, m) == Includes(imp.covered, m)

coveringGroupsFirstOnly(imps, m) ==
    LET all == SelectSeq(imps, LAMBDA imp : Covers(imp, m))
    IN  IF Len(all) = 0 THEN <<>> ELSE <<all[1]>>

\* const coveringGroups = implicants.filter((imp) => imp.covered.includes(minterm));
coveringGroups(imps, m) == SelectSeq(imps, LAMBDA imp : Covers(imp, m))

firstGroupIndexLast(imps, groups) ==
    IF Len(groups) > 0 THEN IndexOf(imps, groups[Len(groups)]) ELSE -1

\* const firstGroupIndex = coveringGroups.length > 0 ? implicants.indexOf(coveringGroups[0]) : -1;
firstGroupIndex(imps, groups) ==
    IF Len(groups) > 0 THEN IndexOf(imps, groups[1]) ELSE -1

\* GROUP_RING_CLASSES[i % GROUP_RING_CLASSES.length]
RingClass(i) == GROUP_RING_CLASSES[(i % Len(GROUP_RING_CLASSES)) + 1]

\* const groupRingClass = firstGroupIndex >= 0 ? GROUP_RING_CLASSES[...] : '';
groupRingClass(first) == IF first >= 0 THEN RingClass(first) ELSE ""

\* const groupsLabel = coveringGroups.length > 0 ? coveringGroups.map(imp => imp.bits).join(', ') : 'None';
groupsLabel(groups) ==
    IF Len(groups) > 0
    THEN Join([k \in 1..Len(groups) |-> groups[k].bits], <<",", " ">>)
    ELSE <<"N", "o", "n", "e">>

\* the body of colGray.map((cg, ci) => ...): one cell of the grid
Cell(rg, cg, colVars, n, mts, dcs, imps) ==
    LET minterm == MintermOf(rg, cg, colVars)
        groups  == coveringGroups(imps, minterm)
        first   == firstGroupIndex(imps, groups)
    IN  [ minterm         |-> minterm,
          cellVal         |-> valueForMinterm(minterm, mts, dcs),
          coveringGroups  |-> groups,
          firstGroupIndex |-> first,
          groupRingClass  |-> groupRingClass(first),
          bitString       |-> toBitsString(minterm, n),
          groupsLabel     |-> groupsLabel(groups) ]

\* function KMapGrid({ numInputs, minterms, dontCares, implicants })
KMapGrid(n, mts, dcs, imps) ==
    IF Rejects(n) THEN NullGrid
    ELSE
      LET rowVars == n \div 2
          colVars == n - rowVars
          rowGray == graySequence(rowVars)
          colGray == graySequence(colVars)
          allVars == Slice(ALL_VARS, 0, n)
      IN  [ kind          |-> "grid",
            rowVars       |-> rowVars,
            colVars       |-> colVars,
            rows          |-> Shl32(1, rowVars),
            cols          |-> Shl32(1, colVars),
            rowGray       |-> rowGray,
            colGray       |-> colGray,
            rowLabelsVars |-> Slice(allVars, 0, rowVars),
            colLabelsVars |-> Slice(allVars, rowVars, Len(allVars)),
            colLabels     |-> [ci \in 1..Len(colGray) |-> toBitsString(colGray[ci], colVars)],
            rowLabels     |-> [ri \in 1..Len(rowGray) |-> toBitsString(rowGray[ri], rowVars)],
            cells         |-> [ri \in 1..Len(rowGray) |->
                                 [ci \in 1..Len(colGray) |->
                                    Cell(rowGray[ri], colGray[ci], colVars, n, mts, dcs, imps)]],
            legend        |-> [k \in 1..Len(imps) |-> RingClass(k - 1)] ]


-----------------------------------------------------------------------------
(* Inputs the operations are run on *)

\* all sequences over S of length at most n
SeqsUpTo(S, n) == UNION { [1..k -> S] : k \in 0..n }

\* 1 << 31, 1 << 32 and 1 << 33 leave the 31 value bits of a 32-bit integer
OverflowWidths == {31, 32, 33}
GrayWidths == (0..MaxBits) \cup OverflowWidths

NumInputsDomain == (MinInputs - InputSlack)..(MaxInputs + InputSlack)

\* minterm indexes the lists are made of
IndexPool == {0, 1, 3}
IndexLists == SeqsUpTo(IndexPool, MaxListLen)

Zeros(k) == [j \in 1..k |-> "0"]

\* what the solver may answer for n inputs: two overlapping groups, and one
\* whose covered list holds 99 (and whose pattern is two characters long)
GroupLow(n)  == [bits |-> Zeros(n - 1) \o <<"-">>, covered |-> <<0, 1>>]
GroupOdd(n)  == [bits |-> Zeros(n - 2) \o <<"-", "1">>, covered |-> <<1, 3>>]
GroupBad     == [bits |-> <<"1", "1">>, covered |-> <<3, 99>>]
ImplicantPool(n) == {GroupLow(n), GroupOdd(n), GroupBad}

None == [kind |-> "none"]

GrayIdle == gBits = 0 /\ gLen = 0 /\ gI = 0 /\ gOut = <<>> /\ gPc = "idle"
GridIdle ==
    /\ pNumInputs = 0 /\ pMinterms = <<>> /\ pDontCares = <<>> /\ pImplicants = <<>>
    /\ grid = NotRendered
PageIdle ==
    /\ numInputs = 0 /\ minterms = <<>> /\ dontCares = <<>>
    /\ result = None /\ error = None /\ isRunning = FALSE
    /\ pending = None /\ resultReq = None

-----------------------------------------------------------------------------
(* graySequence, statement by statement *)

GrayInit ==
    /\ gBits \in GrayWidths
    /\ gLen = 0 /\ gI = 0 /\ gOut = <<>> /\ gPc = "start"
    /\ GridIdle /\ PageIdle

\* if (bits <= 0) return [0]; const len = 1 << bits; const out = []; let i = 0
GrayEnter ==
    /\ gPc = "start"
    /\ IF gBits <= 0
       THEN gOut' = <<0>> /\ gPc' = "done" /\ UNCHANGED <<gLen, gI>>
       ELSE gLen' = Shl32(1, gBits) /\ gI' = 0 /\ gOut' = <<>> /\ gPc' = "loop"
    /\ UNCHANGED <<gBits, gridVars, pageVars>>

\* i < len: out.push(i ^ (i >> 1)); i++
GrayLoop ==
    /\ gPc = "loop"
    /\ gI < gLen
    /\ gOut' = Append(gOut, GrayElem(gI))
    /\ gI' = gI + 1
    /\ UNCHANGED <<gBits, gLen, gPc, gridVars, pageVars>>

\* !(i < len): return out
GrayReturn ==
    /\ gPc = "loop"
    /\ ~(gI < gLen)
    /\ gPc' = "done"
    /\ UNCHANGED <<gBits, gLen, gI, gOut, gridVars, pageVars>>

GrayNext == GrayEnter \/ GrayLoop \/ GrayReturn

SpecGray == GrayInit /\ [][GrayNext]_vars

-----------------------------------------------------------------------------
(* KMapGrid, one render of given props *)

GridInit ==
    /\ pNumInputs \in NumInputsDomain
    /\ \/ /\ pMinterms \in IndexLists
          /\ pDontCares \in IndexLists
          /\ pImplicants = <<GroupLow(pNumInputs), GroupOdd(pNumInputs)>>
       \/ /\ pMinterms = <<0, 3>>
          /\ pDontCares = <<1, 3>>
          /\ pImplicants \in SeqsUpTo(ImplicantPool(pNumInputs), MaxImplicants)
    /\ grid = NotRendered
    /\ GrayIdle /\ PageIdle

Render ==
    /\ grid = NotRendered
    /\ grid' = KMapGrid(pNumInputs, pMinterms, pDontCares, pImplicants)
    /\ UNCHANGED <<pNumInputs, pMinterms, pDontCares, pImplicants, grayVars, pageVars>>

GridNext == Render

SpecGrid == GridInit /\ [][GridNext]_vars


-----------------------------------------------------------------------------
(* parseList: String.prototype.trim / split, parseInt(x, 10)                  *)

Digits == <<"0", "1", "2", "3", "4", "5", "6", "7", "8", "9">>
IsDigit(c) == \E d \in 1..Len(Digits) : Digits[d] = c
DigitValue(c) == (CHOOSE d \in 1..Len(Digits) : Digits[d] = c) - 1

\* a JavaScript number as parseInt returns it: NaN, or a finite integer
NaN == [finite |-> FALSE, value |-> 0]
Num(v) == [finite |-> TRUE, value |-> v]

RECURSIVE TrimStart(_)
TrimStart(str) ==
    IF Len(str) > 0 /\ str[1] = " " THEN TrimStart(Tail(str)) ELSE str

RECURSIVE TrimEnd(_)
TrimEnd(str) ==
    IF Len(str) > 0 /\ str[Len(str)] = " "
    THEN TrimEnd(SubSeq(str, 1, Len(str) - 1))
    ELSE str

\* str.trim()
Trim(str) == TrimEnd(TrimStart(str))

RECURSIVE Split(_, _)
\* str.split(sep) for a one-character separator: always at least one piece
Split(str, sep) ==
    IF \E k \in 1..Len(str) : str[k] = sep
    THEN LET k == CHOOSE j \in 1..Len(str) :
                      str[j] = sep /\ \A h \in 1..(j - 1) : str[h] # sep
         IN  <<SubSeq(str, 1, k - 1)>> \o Split(SubSeq(str, k + 1, Len(str)), sep)
    ELSE <<str>>

RECURSIVE DigitsPrefixValue(_, _)
\* the value of the longest prefix of digits of str, acc being the value so far
DigitsPrefixValue(str, acc) ==
    IF Len(str) > 0 /\ IsDigit(str[1])
    THEN DigitsPrefixValue(Tail(str), 10 * acc + DigitValue(str[1]))
    ELSE acc

\* parseInt(str, 10): leading white space skipped, an optional sign, then the
\* longest prefix of digits; NaN when there is no digit
ParseInt(str) ==
    LET t    == TrimStart(str)
        neg  == Len(t) > 0 /\ t[1] = "-"
        body == IF Len(t) > 0 /\ t[1] \in {"-", "+"} THEN Tail(t) ELSE t
    IN  IF Len(body) > 0 /\ IsDigit(body[1])
        THEN Num((IF neg THEN -1 ELSE 1) * DigitsPrefixValue(body, 0))
        ELSE NaN

\* function parseList(s: string): number[]
parseList(s) ==
    IF Len(Trim(s)) = 0 THEN <<>>
    ELSE LET pieces == Split(s, ",")
             nums   == [k \in 1..Len(pieces) |-> ParseInt(Trim(pieces[k]))]
             kept   == SelectSeq(nums, LAMBDA x : x.finite)
         IN  [k \in 1..Len(kept) |-> kept[k].value]

-----------------------------------------------------------------------------
(* KMapPage *)

\* useState('0,2,5,7,8,10,13,15')
DefaultMinterms ==
    << "0", ",", "2", ",", "5", ",", "7", ",", "8", ",",
       "1", "0", ",", "1", "3", ",", "1", "5" >>

\* const numInputOptions = useMemo(() => [2, 3, 4, 5, 6], []);
numInputOptions == {2, 3, 4, 5, 6}

\* what the user types into the two text fields
Texts ==
    { <<>>,
      <<"0", ",", "3">>,
      <<" ", "1", ",", " ", "2">>,
      <<"0", ",", "x", ",", "9">>,
      <<"-", "1">> }

\* what the solver answers to a request: a list of selected implicants
Responses(req) ==
    { [expression |-> "F", latex |-> "F", selectedImplicants |-> imps] :
        imps \in { <<>>,
                   <<GroupLow(req.numInputs)>>,
                   <<GroupLow(req.numInputs), GroupOdd(req.numInputs)>> } }

\* the messages a failed request ends with: json.error, or 'Request failed'
FailureMessages == {"Request failed", "solver error"}

RECURSIVE MaxOf(_)
\* Math.max(...all) of a non-empty list
MaxOf(all) ==
    IF Len(all) = 1 THEN all[1]
    ELSE LET m == MaxOf(Tail(all)) IN IF all[1] > m THEN all[1] ELSE m

RECURSIVE CeilLog2(_)
\* Math.ceil(Math.log2(x)) for an integer x >= 1
CeilLog2(x) == IF x <= 1 THEN 0 ELSE 1 + CeilLog2((x + 1) \div 2)

PageInit ==
    /\ numInputs = 4
    /\ minterms = DefaultMinterms
    /\ dontCares = <<>>
    /\ result = None
    /\ error = None
    /\ isRunning = FALSE
    /\ pending = None
    /\ resultReq = None
    /\ GrayIdle /\ GridIdle

\* onChange={(e) => setNumInputs(parseInt(e.target.value, 10))}
SetNumInputs ==
    /\ \E n \in numInputOptions : numInputs' = n
    /\ UNCHANGED <<minterms, dontCares, result, error, isRunning, pending, resultReq,
                   grayVars, gridVars>>

\* onChange={(e) => setMinterms(e.target.value)}
SetMinterms ==
    /\ \E t \in Texts : minterms' = t
    /\ UNCHANGED <<numInputs, dontCares, result, error, isRunning, pending, resultReq,
                   grayVars, gridVars>>

\* onChange={(e) => setDontCares(e.target.value)}
SetDontCares ==
    /\ \E t \in Texts : dontCares' = t
    /\ UNCHANGED <<numInputs, minterms, result, error, isRunning, pending, resultReq,
                   grayVars, gridVars>>

\* run() up to its await, e0 and r0 being error and result after its first
\* two statements: parse, validate, then either an error or the request
RunBody(e0, r0) ==
    LET mts == parseList(minterms)
        dcs == parseList(dontCares)
        all == mts \o dcs
        maxAllowed == Shl32(1, numInputs) - 1
    IN  /\ result' = r0
        /\ IF \E k \in 1..Len(all) : all[k] < 0
           THEN /\ error' = [kind |-> "notNonNegative"]
                /\ UNCHANGED <<isRunning, pending>>
           ELSE IF Len(all) > 0 /\ MaxOf(all) > maxAllowed
           THEN /\ error' = [ kind           |-> "outOfRange",
                              maxIndex       |-> MaxOf(all),
                              numInputs      |-> numInputs,
                              maxAllowed     |-> maxAllowed,
                              requiredInputs |-> CeilLog2(MaxOf(all) + 1) ]
                /\ UNCHANGED <<isRunning, pending>>
           ELSE /\ error' = e0
                /\ isRunning' = TRUE
                /\ pending' = [numInputs |-> numInputs, minterms |-> mts, dontCares |-> dcs]
        /\ resultReq' = None
        /\ UNCHANGED <<numInputs, minterms, dontCares, grayVars, gridVars>>

SubmitKeepsError ==
    /\ ~isRunning
    /\ RunBody(error, None)

\* the Solve button (disabled={isRunning}) submits the form: run() to its await
Submit ==
    /\ ~isRunning
    /\ RunBody(None, None)

\* the fetch resolves with res.ok: setResult(json); finally setIsRunning(false)
ResponseOk ==
    /\ pending # None
    /\ \E res \in Responses(pending) : result' = res
    /\ resultReq' = pending
    /\ isRunning' = FALSE
    /\ pending' = None
    /\ UNCHANGED <<numInputs, minterms, dontCares, error, grayVars, gridVars>>

\* the fetch rejects, or !res.ok: setError(e.message); finally setIsRunning(false)
ResponseFail ==
    /\ pending # None
    /\ \E msg \in FailureMessages : error' = [kind |-> "request", message |-> msg]
    /\ isRunning' = FALSE
    /\ pending' = None
    /\ UNCHANGED <<numInputs, minterms, dontCares, result, resultReq, grayVars, gridVars>>

\* Clear Output: setResult(null); setError(null)
ClearOutput ==
    /\ result' = None
    /\ error' = None
    /\ resultReq' = None
    /\ UNCHANGED <<numInputs, minterms, dontCares, isRunning, pending, grayVars, gridVars>>

\* {result && (<KMapGrid numInputs={numInputs} minterms={parseList(minterms)} ... />)}
DisplayedProps ==
    [ numInputs |-> numInputs,
      minterms  |-> parseList(minterms),
      dontCares |-> parseList(dontCares),
      implicants |-> result.selectedImplicants ]

Next ==
    \/ SetNumInputs
    \/ SetMinterms
    \/ SetDontCares
    \/ Submit
    \/ ResponseOk
    \/ ResponseFail
    \/ ClearOutput

Spec == PageInit /\ [][Next]_vars

\* a fetch that was sent settles: it resolves or it rejects
FairSpec == Spec /\ WF_vars(ResponseOk \/ ResponseFail)


-----------------------------------------------------------------------------
(* Vocabulary of the properties, defined without the operators of the model  *)

\* bit j of x >= 0
BitAt(x, j) == (x \div Pow2(j)) % 2
BitPositions == 0..30
\* the number of bit positions in which a and b differ
DiffBits(a, b) == Cardinality({j \in BitPositions : BitAt(a, j) # BitAt(b, j)})
\* v = i XOR (i >> 1), bit by bit
IsXorOfShift(v, i) ==
    \A j \in BitPositions : BitAt(v, j) = (BitAt(i, j) + BitAt(i \div 2, j)) % 2

RECURSIVE IsPow2Of(_, _)
\* len = 2^k, decided without computing 2^k
IsPow2Of(len, k) ==
    IF k = 0 THEN len = 1
    ELSE len > 0 /\ (len % 2) = 0 /\ IsPow2Of(len \div 2, k - 1)

SeqRange(seq) == {seq[k] : k \in 1..Len(seq)}

\* seq is a permutation of 0..2^k-1
IsPermutationOfWidth(seq, k) ==
    /\ IsPow2Of(Len(seq), k)
    /\ SeqRange(seq) = 0..(Len(seq) - 1)

IsIndexXorShift(seq) == \A k \in 1..Len(seq) : IsXorOfShift(seq[k], k - 1)

\* every element and its cyclic successor (the last one's is the first) differ in one bit
CyclicOneBit(seq) ==
    \A k \in 1..Len(seq) : DiffBits(seq[k], seq[(k % Len(seq)) + 1]) = 1

RECURSIVE BinValue(_)
\* the number a string of binary digits, most significant first, denotes
BinValue(str) ==
    IF Len(str) = 0 THEN 0
    ELSE 2 * BinValue(SubSeq(str, 1, Len(str) - 1)) + (IF str[Len(str)] = "1" THEN 1 ELSE 0)

IsBinary(str) == \A k \in 1..Len(str) : str[k] \in {"0", "1"}

Rendered == grid.kind = "grid"
InRange == pNumInputs \in 2..6
Positions ==
    IF Rendered
    THEN {<<ri, ci>> : ri \in 1..Len(grid.cells), ci \in 1..Len(grid.colGray)}
    ELSE {}
CellAt(pos) == grid.cells[pos[1]][pos[2]]

\* positions (1-based) of the implicants whose covered list holds m
CoveringPositions(m) ==
    {i \in 1..Len(pImplicants) : m \in SeqRange(pImplicants[i].covered)}
KthSmallest(S, k) == CHOOSE x \in S : Cardinality({y \in S : y < x}) = k - 1

\* the cells' values, row by row
FlatValues ==
    [k \in 1..(Len(grid.cells) * Len(grid.colGray)) |->
        grid.cells[((k - 1) \div Len(grid.colGray)) + 1]
                  [((k - 1) % Len(grid.colGray)) + 1].cellVal]

-----------------------------------------------------------------------------
(* C1..C8: the grid *)

\* C1: for every numInputs n in 2..6 the cells of the grid, rows in
\* graySequence(rowVars) order and columns in graySequence(colVars) order with
\* minterm = rowGray * 2^colVars + colGray, carry every index of 0..2^n-1
\* exactly once.
C1_MintermBijection ==
    (grid # NotRendered /\ InRange) =>
        /\ Rendered
        /\ \A pos \in Positions :
              /\ CellAt(pos).minterm \in 0..(Pow2(pNumInputs) - 1)
              /\ CellAt(pos).minterm =
                    grid.rowGray[pos[1]] * Pow2(pNumInputs - (pNumInputs \div 2))
                    + grid.colGray[pos[2]]
        /\ \A m \in 0..(Pow2(pNumInputs) - 1) :
              Cardinality({pos \in Positions : CellAt(pos).minterm = m}) = 1

C1_Witness ==
    /\ Rendered /\ pNumInputs = 5
    /\ CellAt(<<4, 8>>).minterm = 20
    /\ \E pos \in Positions : CellAt(pos).minterm = 31

\* C2 as written: for all k >= 0, graySequence(k) is a permutation of
\* 0..2^k-1 whose i-th element is i XOR (i >> 1), and every cyclically adjacent
\* pair, the wrap-around included, differs in exactly one bit.
C2_AllWidths ==
    gPc = "done" =>
        /\ IsPermutationOfWidth(gOut, gBits)
        /\ IsIndexXorShift(gOut)
        /\ CyclicOneBit(gOut)

\* C2 amended: for 0 <= k <= 30, graySequence(k) is a permutation of
\* 0..2^k-1 whose i-th element is i XOR (i >> 1); for 1 <= k <= 30 every
\* cyclically adjacent pair, the wrap-around included, differs in exactly one
\* bit.
C2_GrayUpTo30 ==
    (gPc = "done" /\ gBits \in 0..30) =>
        /\ IsPermutationOfWidth(gOut, gBits)
        /\ IsIndexXorShift(gOut)
        /\ gOut = graySequence(gBits)
        /\ (gBits >= 1 => CyclicOneBit(gOut))

C2_Witness ==
    gPc = "done" /\ gBits = 3 /\ gOut = <<0, 1, 3, 2, 6, 7, 5, 4>>

\* C3: a cell shows '1' iff its index is in the minterms list, 'X' iff it is
\* in the don't-cares list and not in the minterms list, '0' otherwise; for
\* n = 2 and minterms [0, 3] with no don't-cares the values in grid order are
\* 1, 0, 0, 1.
C3_CellValues ==
    Rendered =>
        /\ \A pos \in Positions :
              LET c == CellAt(pos)
                  on == c.minterm \in SeqRange(pMinterms)
                  dc == c.minterm \in SeqRange(pDontCares)
              IN  /\ c.cellVal = "1" <=> on
                  /\ c.cellVal = "X" <=> (dc /\ ~on)
                  /\ c.cellVal = "0" <=> (~dc /\ ~on)
        /\ (pNumInputs = 2 /\ pMinterms = <<0, 3>> /\ pDontCares = <<>>)
              => FlatValues = <<"1", "0", "0", "1">>

C3_Witness ==
    /\ Rendered /\ pNumInputs = 2
    /\ pMinterms = <<0, 3>> /\ pDontCares = <<1, 3>>
    /\ FlatValues = <<"1", "X", "0", "1">>

\* C4: the covering groups of a cell are exactly the implicants whose covered
\* list holds the cell's index, in ascending order of their position in the
\* implicant list; all of them are kept.
C4_CoveringGroups ==
    Rendered =>
        \A pos \in Positions :
            LET c   == CellAt(pos)
                idx == CoveringPositions(c.minterm)
            IN  /\ Len(c.coveringGroups) = Cardinality(idx)
                /\ \A k \in 1..Len(c.coveringGroups) :
                      c.coveringGroups[k] = pImplicants[KthSmallest(idx, k)]

C4_Witness ==
    /\ Rendered /\ Len(pImplicants) = 3
    /\ \E pos \in Positions :
          /\ CoveringPositions(CellAt(pos).minterm) = {1, 3}
          /\ Len(CellAt(pos).coveringGroups) = 2
    /\ \E pos \in Positions : CellAt(pos).coveringGroups = <<>>

\* C5: the primary implicant of a cell is the first one in list order that
\* covers it, none when none covers it; the cell's ring class is the palette
\* entry at that position modulo 5, the same one the legend gives that
\* implicant, and a cell has no ring class iff no implicant covers it.
C5_PrimaryColour ==
    Rendered =>
        \A pos \in Positions :
            LET c   == CellAt(pos)
                idx == CoveringPositions(c.minterm)
            IN  /\ (c.groupRingClass = "") <=> (idx = {})
                /\ idx = {} => c.firstGroupIndex = -1
                /\ idx # {} =>
                      LET first == KthSmallest(idx, 1)
                      IN  /\ c.firstGroupIndex = first - 1
                          /\ c.groupRingClass = GROUP_RING_CLASSES[((first - 1) % 5) + 1]
                          /\ c.groupRingClass = grid.legend[first]

C5_Witness ==
    /\ Rendered /\ Len(pImplicants) = 6
    /\ \E pos \in Positions :
          /\ CellAt(pos).firstGroupIndex = 5
          /\ Cardinality(CoveringPositions(CellAt(pos).minterm)) = 1
          /\ CellAt(pos).groupRingClass = "ring-2 ring-emerald-400/70"
    /\ \E pos \in Positions : CellAt(pos).firstGroupIndex = 0

\* an implicant is malformed: a covered index outside 0..2^n-1, or a pattern
\* whose length is not n
Malformed(imp, n) ==
    \/ \E m \in SeqRange(imp.covered) : m \notin 0..(Pow2(n) - 1)
    \/ Len(imp.bits) # n

\* C6: when a supplied implicant is malformed, building the grid fails with
\* a StructuralError and no grid is produced.
C6_MalformedRejected ==
    (grid # NotRendered /\ InRange
       /\ \E i \in 1..Len(pImplicants) : Malformed(pImplicants[i], pNumInputs))
    => grid = [kind |-> "StructuralError"]

\* C7: numInputs outside 2..6 is rejected before any grid computation (the
\* render returns null: no Gray sequence, no cell); inside 2..6 the grid has
\* 2^floor(n/2) rows of 2^(n - floor(n/2)) columns.
C7_DomainAndShape ==
    grid # NotRendered =>
        /\ ~InRange => grid = NullGrid
        /\ InRange =>
              /\ Rendered
              /\ grid.rows = Pow2(pNumInputs \div 2)
              /\ grid.cols = Pow2(pNumInputs - (pNumInputs \div 2))
              /\ Len(grid.cells) = grid.rows
              /\ \A ri \in 1..Len(grid.cells) : Len(grid.cells[ri]) = grid.cols

C7_Witness ==
    /\ pNumInputs = 7
    /\ grid = NullGrid
    /\ Len(pImplicants) > 0

\* C8: the bit string of a cell's index m has length n, is m in binary, most
\* significant bit first, and is the row's Gray label (rowVars bits) followed
\* by the column's Gray label (colVars bits).
C8_BitString ==
    Rendered =>
        \A pos \in Positions :
            LET c == CellAt(pos)
                rowLabel == grid.rowLabels[pos[1]]
                colLabel == grid.colLabels[pos[2]]
            IN  /\ Len(c.bitString) = pNumInputs
                /\ IsBinary(c.bitString)
                /\ BinValue(c.bitString) = c.minterm
                /\ Len(rowLabel) = pNumInputs \div 2
                /\ BinValue(rowLabel) = grid.rowGray[pos[1]]
                /\ Len(colLabel) = pNumInputs - (pNumInputs \div 2)
                /\ BinValue(colLabel) = grid.colGray[pos[2]]
                /\ c.bitString = rowLabel \o colLabel

C8_Witness ==
    /\ Rendered /\ pNumInputs = 5
    /\ \E pos \in Positions :
          /\ CellAt(pos).minterm = 9
          /\ CellAt(pos).bitString = <<"0", "1", "0", "0", "1">>
          /\ grid.rowLabels[pos[1]] = <<"0", "1">>
          /\ grid.colLabels[pos[2]] = <<"0", "0", "1">>


-----------------------------------------------------------------------------
(* C9, C10: the page *)

\* C9: whenever a K-map grid is displayed, the numInputs, minterms and
\* don't-cares it is built from are the ones sent in the request whose
\* response supplied the displayed implicants.
C9_GridMatchesRequest ==
    result # None =>
        /\ DisplayedProps.numInputs = resultReq.numInputs
        /\ DisplayedProps.minterms = resultReq.minterms
        /\ DisplayedProps.dontCares = resultReq.dontCares

\* C10: the error and the result are never both set; a run that set
\* isRunning ends with exactly one of them set, and every run that set
\* isRunning eventually sets it back to false.
C10_ErrorXorResult ==
    /\ [](~(error # None /\ result # None))
    /\ [][(isRunning /\ ~isRunning') => ((error' # None) # (result' # None))]_vars
    /\ (isRunning ~> ~isRunning)

C10_Witness ==
    /\ ~isRunning /\ pending = None
    /\ result # None /\ error = None
    /\ resultReq # None /\ resultReq.minterms = <<1, 2>>

=============================================================================
